---- MODULE Spec2Model ----
(***************************************************************************)
(* Key-value store server (e2e_test_kvs): Storage, the text protocol       *)
(* (parse_command / format_response) and the accept / handle_connection    *)
(* loop of Server.                                                         *)
(*                                                                         *)
(* Strings and byte strings are sequences of one-character strings, so    *)
(* that strip/split/upper/join are computed character by character.       *)
(* Python's None is the one-element sequence <<"None">>, which is no       *)
(* character sequence.                                                     *)
(***************************************************************************)
EXTENDS Naturals, Integers, Sequences, FiniteSets, TLC

VARIABLES
    data,         \* Storage._data: the dict of the Server's Storage
    pc,           \* position of the main thread (Server.run or a direct caller)
    hpc,          \* hpc[c]: position of handle_connection(conn c)
    command_str,  \* command_str[c]: local of handle_connection, the decoded read
    cmd,          \* cmd[c]: locals <<command, key, value>> of handle_connection
    response,     \* response[c]: local of handle_connection
    cl,           \* cl[c]: the client's end of connection c
    inbox,        \* inbox[c]: chunks sent by the client, not yet read by recv
    outbox,       \* outbox[c]: byte strings sendall has written, in order
    backlog,      \* connections completed by the kernel, waiting for accept()
    nsent,        \* number of client sends so far (at most limit)
    trace,        \* history: one record per execute_command call, in order
    sent,         \* sent[c]: all bytes the client has sent on c, in order
    menu,         \* menu[c]: the byte strings client c of this run chooses from
    limit,        \* the number of client sends of this run
    arg,          \* argument of a direct call of parse_command (unit test)
    ret           \* its return value

vars == <<data, pc, hpc, command_str, cmd, response, cl, inbox, outbox,
          backlog, nsent, trace, sent, menu, limit, arg, ret>>

----------------------------------------------------------------------------
(* Bounds *)

NConn == 2
MaxSends == 3
MaxCalls == 2
MaxTokens == 4

Conns == 1..NConn

----------------------------------------------------------------------------
(* Characters and strings *)

None == <<"None">>

BAD == "\\xff"

LowerChars == <<"a","b","c","d","e","f","g","h","i","j","k","l","m",
                "n","o","p","q","r","s","t","u","v","w","x","y","z">>

UpperChars == <<"A","B","C","D","E","F","G","H","I","J","K","L","M",
                "N","O","P","Q","R","S","T","U","V","W","X","Y","Z">>

Whitespace == {" ", "\t", "\n", "\r", "\f", "\\x0b"}

isspace(ch) == ch \in Whitespace

upper_char(ch) ==
    IF \E i \in 1..26 : LowerChars[i] = ch
    THEN UpperChars[CHOOSE i \in 1..26 : LowerChars[i] = ch]
    ELSE ch

\* The string operations are functions on strings: the argument of a
\* function is a value, computed once.
Str == Seq(STRING)

\* str.upper
upper[s \in Str] == [i \in 1..Len(s) |-> upper_char(s[i])]

lstrip[s \in Str] ==
    IF s # <<>> /\ isspace(Head(s)) THEN lstrip[Tail(s)] ELSE s

rstrip[s \in Str] ==
    IF s # <<>> /\ isspace(s[Len(s)]) THEN rstrip[SubSeq(s, 1, Len(s) - 1)] ELSE s

\* str.strip()
strip[s \in Str] == rstrip[lstrip[s]]

\* the length of the run of characters at the head of s that are no whitespace
word_len[s \in Str] ==
    IF s = <<>> \/ isspace(Head(s)) THEN 0 ELSE 1 + word_len[Tail(s)]

\* str.split()
split[s \in Str] ==
    IF s = <<>> THEN <<>>
    ELSE IF isspace(Head(s)) THEN split[Tail(s)]
    ELSE <<SubSeq(s, 1, word_len[s])>>
            \o split[SubSeq(s, word_len[s] + 1, Len(s))]

\* ' '.join(parts)
join_space[parts \in Seq(Str)] ==
    IF parts = <<>> THEN <<>>
    ELSE IF Len(parts) = 1 THEN parts[1]
    ELSE parts[1] \o <<" ">> \o join_space[Tail(parts)]

----------------------------------------------------------------------------
(* protocol.py *)

GET == <<"G","E","T">>
SET == <<"S","E","T">>
DELETE == <<"D","E","L","E","T","E">>

\* parse_command without the upper-casing of the verb
parse_command_verb_as_typed(s) ==
    LET parts == split[strip[s]]
    IN  IF parts = <<>> THEN <<None, None, None>>
        ELSE <<parts[1],
               IF Len(parts) > 1 THEN parts[2] ELSE None,
               IF Len(parts) > 2
               THEN join_space[SubSeq(parts, 3, Len(parts))]
               ELSE None>>

\* the characters of s before its first newline
first_line[s \in Str] ==
    IF s = <<>> \/ Head(s) = "\n" THEN <<>>
    ELSE <<Head(s)>> \o first_line[Tail(s)]

\* parse_command that reads one line of the string: the framing of spec 9
parse_command_first_line(s) ==
    LET parts == split[first_line[lstrip[s]]]
    IN  IF parts = <<>> THEN <<None, None, None>>
        ELSE <<upper[parts[1]],
               IF Len(parts) > 1 THEN parts[2] ELSE None,
               IF Len(parts) > 2
               THEN join_space[SubSeq(parts, 3, Len(parts))]
               ELSE None>>

\* s without the word at its head and the whitespace after it
drop_word[s \in Str] == lstrip[SubSeq(s, word_len[s] + 1, Len(s))]

\* parse_command that splits twice only and keeps the rest as it was typed:
\* command_str.strip().split(None, 2)
parse_command_raw_value(s) ==
    LET parts == split[strip[s]]
    IN  IF parts = <<>> THEN <<None, None, None>>
        ELSE <<upper[parts[1]],
               IF Len(parts) > 1 THEN parts[2] ELSE None,
               IF Len(parts) > 2
               THEN drop_word[drop_word[strip[s]]]
               ELSE None>>

\* parse_command whose value is always a string: ' '.join(parts[2:])
parse_command_empty_value(s) ==
    LET parts == split[strip[s]]
    IN  IF parts = <<>> THEN <<None, None, None>>
        ELSE <<upper[parts[1]],
               IF Len(parts) > 1 THEN parts[2] ELSE None,
               IF Len(parts) > 1
               THEN join_space[SubSeq(parts, 3, Len(parts))]
               ELSE None>>

parse_command(s) ==
    LET parts == split[strip[s]]
    IN  IF parts = <<>> THEN <<None, None, None>>
        ELSE <<upper[parts[1]],
               IF Len(parts) > 1 THEN parts[2] ELSE None,
               IF Len(parts) > 2
               THEN join_space[SubSeq(parts, 3, Len(parts))]
               ELSE None>>

NIL == <<"(","n","i","l",")">>

\* format_response without the case of None: f"{None}\n"
format_response_no_nil(r) == r \o <<"\n">>

format_response(r) ==
    IF r = None THEN NIL \o <<"\n">> ELSE r \o <<"\n">>

----------------------------------------------------------------------------
(* storage.py: every operation maps the dict to the new dict and the       *)
(* returned value                                                          *)

EmptyDict == [k \in {} |-> None]

Storage_get(d, key) ==
    IF key \in DOMAIN d THEN d[key] ELSE None

\* set with key and value exchanged: self._data[value] = key
Storage_set_swapped(d, key, value) ==
    [k \in DOMAIN d \cup {value} |-> IF k = value THEN key ELSE d[k]]

\* set that keeps the entry of a key already present: setdefault
Storage_set_first_wins(d, key, value) ==
    [k \in DOMAIN d \cup {key} |-> IF k \in DOMAIN d THEN d[k] ELSE value]

\* set that appends to the value of a key already present
Storage_set_mixed(d, key, value) ==
    [k \in DOMAIN d \cup {key} |->
        IF k # key THEN d[k]
        ELSE IF key \in DOMAIN d /\ d[key] # None /\ value # None
        THEN d[key] \o value
        ELSE value]

Storage_set(d, key, value) ==
    [k \in DOMAIN d \cup {key} |-> IF k = key THEN value ELSE d[k]]

\* delete that reports the key but leaves the entry
Storage_delete_keeps(d, key) ==
    [data |-> d, ret |-> key \in DOMAIN d]

\* delete that empties the dict: self._data.clear() for del self._data[key]
Storage_delete_clears(d, key) ==
    IF key \in DOMAIN d
    THEN [data |-> EmptyDict, ret |-> TRUE]
    ELSE [data |-> d, ret |-> FALSE]

Storage_delete(d, key) ==
    IF key \in DOMAIN d
    THEN [data |-> [k \in DOMAIN d \ {key} |-> d[k]], ret |-> TRUE]
    ELSE [data |-> d, ret |-> FALSE]

----------------------------------------------------------------------------
(* server.py: Server.execute_command *)

OK == <<"O","K">>
ONE == <<"1">>
ZERO == <<"0">>
ERROR_UNKNOWN == <<"E","R","R","O","R",":"," ","U","n","k","n","o","w","n",
                   " ","c","o","m","m","a","n","d">>

\* execute_command that rejects a command without a key
execute_command_key_required(d, command, key, value) ==
    IF key = None
    THEN [data |-> d, result |-> ERROR_UNKNOWN]
    ELSE IF command = GET
    THEN [data |-> d, result |-> Storage_get(d, key)]
    ELSE IF command = SET
    THEN [data |-> Storage_set(d, key, value), result |-> OK]
    ELSE IF command = DELETE
    THEN LET r == Storage_delete(d, key)
         IN  [data |-> r.data, result |-> IF r.ret THEN ONE ELSE ZERO]
    ELSE [data |-> d, result |-> ERROR_UNKNOWN]

\* execute_command whose last branch answers like GET
execute_command_else_get(d, command, key, value) ==
    IF command = SET
    THEN [data |-> Storage_set(d, key, value), result |-> OK]
    ELSE IF command = DELETE
    THEN LET r == Storage_delete(d, key)
         IN  [data |-> r.data, result |-> IF r.ret THEN ONE ELSE ZERO]
    ELSE [data |-> d, result |-> Storage_get(d, key)]

execute_command(d, command, key, value) ==
    IF command = GET
    THEN [data |-> d, result |-> Storage_get(d, key)]
    ELSE IF command = SET
    THEN [data |-> Storage_set(d, key, value), result |-> OK]
    ELSE IF command = DELETE
    THEN LET r == Storage_delete(d, key)
         IN  [data |-> r.data, result |-> IF r.ret THEN ONE ELSE ZERO]
    ELSE [data |-> d, result |-> ERROR_UNKNOWN]

(* One record of the history per execute_command call: the caller (a       *)
(* connection, or 0 for a direct call), the decoded read, the arguments    *)
(* and the returned value.                                                 *)
Call(c, str, command, key, value, result) ==
    [conn |-> c, str |-> str, command |-> command, key |-> key,
     value |-> value, result |-> result]

----------------------------------------------------------------------------
(* The sockets *)

\* bytes.decode('utf-8') / str.encode('utf-8'): on the ASCII alphabet of the
\* model the bytes and the characters coincide; a byte that is no UTF-8
\* makes decode raise UnicodeDecodeError.
decodable(bytes) == \A i \in 1..Len(bytes) : bytes[i] # BAD

decode(bytes) == bytes

encode(str) == str

concat[chunks \in Seq(Str)] ==
    IF chunks = <<>> THEN <<>> ELSE Head(chunks) \o concat[Tail(chunks)]

\* recv that hands out the newest bytes first
recv_newest(inb, n) ==
    [data |-> concat[SubSeq(inb, Len(inb) - n + 1, Len(inb))],
     rest |-> SubSeq(inb, 1, Len(inb) - n)]

\* conn.recv(1024) with n chunks of the stream available: the bytes
\* returned and what remains unread.
recv(inb, n) ==
    [data |-> concat[SubSeq(inb, 1, n)], rest |-> SubSeq(inb, n + 1, Len(inb))]

\* conn.sendall(bytes) that returns normally
sendall(out, bytes) == Append(out, bytes)

Active == {"recv", "exec", "send"}

----------------------------------------------------------------------------
(* The messages the clients send *)

M_SET_A_1 == <<"S","E","T"," ","a"," ","1">>
M_set_a_2 == <<"s","e","t"," ","a"," ","2">>
M_GET_A == <<"G","E","T"," ","a">>
M_DELETE_A == <<"D","E","L","E","T","E"," ","a">>
M_FOO == <<"F","O","O">>
M_EMPTY_LINE == <<"\n">>
M_SET_B_2 == <<"S","E","T"," ","b"," ","2">>
M_GET_B == <<"G","e","t"," ","b">>
M_SET_C_3 == <<"S","E","T"," ","c"," ","3">>
M_GET_C == <<"g","e","t"," ","c">>
M_SET_GET == <<"S","E","T"," ","a"," ","1","\n","G","E","T"," ","a">>
M_FOO_SET == <<"F","O","O","\n","S","E","T"," ","a"," ","1">>
M_SET_RUNS == <<"S","E","T"," ","a","\t"," ","x"," "," ","y","\n">>
M_GET == <<"G","E","T">>
M_SET == <<"s","e","t">>
M_DELETE == <<"D","E","L","E","T","E">>
M_SET_A == <<"S","E","T"," ","a">>
M_BAD == <<BAD>>

\* commands on one key, an unknown verb and a byte string that is no UTF-8
Msgs == {M_SET_A_1, M_set_a_2, M_GET_A, M_DELETE_A, M_FOO, M_BAD}

\* unknown and empty verbs among commands
MsgsErr == {M_FOO, M_EMPTY_LINE, M_SET_A_1, M_GET_A, M_BAD}

\* reads that hold two commands, and values typed with runs of whitespace
MsgsMulti == {M_SET_GET, M_FOO_SET, M_SET_RUNS, M_GET_A, M_BAD}

\* verbs without a key
MsgsNoKey == {M_GET, M_SET, M_DELETE, M_BAD}

\* SET without a value
MsgsNoValue == {M_SET_A, M_GET_A, M_DELETE_A, M_BAD}

\* every client works on a key of its own
MsgsKeys(c) ==
    IF c = 1 THEN {M_SET_A_1, M_GET_A, M_BAD}
    ELSE IF c = 2 THEN {M_SET_B_2, M_GET_B}
    ELSE {M_SET_C_3, M_GET_C}

----------------------------------------------------------------------------
(* Initial state: Server() constructed (server.py main), nothing connected *)

NoLocals ==
    /\ command_str = [c \in Conns |-> <<>>]
    /\ cmd = [c \in Conns |-> <<None, None, None>>]
    /\ response = [c \in Conns |-> None]

NoNetwork ==
    /\ hpc = [c \in Conns |-> "none"]
    /\ cl = [c \in Conns |-> "init"]
    /\ inbox = [c \in Conns |-> <<>>]
    /\ outbox = [c \in Conns |-> <<>>]
    /\ sent = [c \in Conns |-> <<>>]
    /\ backlog = <<>>
    /\ nsent = 0

Constructed ==
    /\ data = EmptyDict
    /\ pc = "created"
    /\ NoLocals
    /\ NoNetwork
    /\ trace = <<>>
    /\ arg = <<>>
    /\ ret = <<>>

Init ==
    /\ Constructed
    /\ menu = [c \in Conns |-> Msgs]
    /\ limit = MaxSends

InitErr ==
    /\ Constructed
    /\ menu = [c \in Conns |-> MsgsErr]
    /\ limit = MaxSends

InitMulti ==
    /\ Constructed
    /\ menu = [c \in Conns |-> MsgsMulti]
    /\ limit = MaxSends

InitNoKey ==
    /\ Constructed
    /\ menu = [c \in Conns |-> MsgsNoKey]
    /\ limit = MaxSends

InitNoValue ==
    /\ Constructed
    /\ menu = [c \in Conns |-> MsgsNoValue]
    /\ limit = MaxSends

\* few messages, for the properties of whole behaviours
MsgsFew == {M_SET_A_1, M_BAD}

InitFew ==
    /\ Constructed
    /\ menu = [c \in Conns |-> MsgsFew]
    /\ limit = MaxSends - 1

InitKeys ==
    /\ Constructed
    /\ menu = [c \in Conns |-> MsgsKeys(c)]
    /\ limit = MaxSends + 1

----------------------------------------------------------------------------
(* Clients *)

client_vars == <<cl, inbox, sent, backlog, nsent>>
server_vars == <<data, pc, hpc, command_str, cmd, response, outbox, trace>>
test_vars == <<menu, limit, arg, ret>>

\* socket.connect: the kernel completes the handshake on the listening
\* socket (listen() was called in __init__) and queues the connection.
\* Connections are numbered in the order they connect.
ClientConnect(c) ==
    /\ pc \in {"created", "accept", "handle"}
    /\ cl[c] = "init"
    /\ \A d \in Conns : d < c => cl[d] # "init"
    /\ cl' = [cl EXCEPT ![c] = "open"]
    /\ backlog' = Append(backlog, c)
    /\ UNCHANGED <<inbox, sent, nsent>>
    /\ UNCHANGED server_vars
    /\ UNCHANGED test_vars

\* socket.sendall(command) of a client
ClientSend(c, m) ==
    /\ pc \in {"created", "accept", "handle"}
    /\ cl[c] = "open"
    /\ hpc[c] # "done"
    /\ nsent < limit
    /\ m \in menu[c]
    /\ inbox' = [inbox EXCEPT ![c] = Append(@, m)]
    /\ sent' = [sent EXCEPT ![c] = @ \o m]
    /\ nsent' = nsent + 1
    /\ UNCHANGED <<cl, backlog>>
    /\ UNCHANGED server_vars
    /\ UNCHANGED test_vars

\* The client closes its socket (end of the with block of client.py): FIN
ClientClose(c) ==
    /\ cl[c] = "open"
    /\ cl' = [cl EXCEPT ![c] = "closed"]
    /\ UNCHANGED <<inbox, sent, backlog, nsent>>
    /\ UNCHANGED server_vars
    /\ UNCHANGED test_vars

\* The client's end is torn down abortively (process killed, RST)
ClientReset(c) ==
    /\ cl[c] = "open"
    /\ cl' = [cl EXCEPT ![c] = "reset"]
    /\ UNCHANGED <<inbox, sent, backlog, nsent>>
    /\ UNCHANGED server_vars
    /\ UNCHANGED test_vars

----------------------------------------------------------------------------
(* server.py: Server.run and Server.handle_connection *)

\* main(): server.run() enters the accept loop
Run ==
    /\ pc = "created"
    /\ pc' = "accept"
    /\ UNCHANGED <<data, hpc, command_str, cmd, response, outbox, trace>>
    /\ UNCHANGED client_vars
    /\ UNCHANGED test_vars

\* run that hands every connection a Storage of its own
Accept_fresh_store(c) ==
    /\ pc = "accept"
    /\ backlog # <<>>
    /\ c = Head(backlog)
    /\ backlog' = Tail(backlog)
    /\ pc' = "handle"
    /\ hpc' = [hpc EXCEPT ![c] = "recv"]
    /\ data' = EmptyDict
    /\ UNCHANGED <<command_str, cmd, response, outbox, trace>>
    /\ UNCHANGED <<cl, inbox, sent, nsent>>
    /\ UNCHANGED test_vars

\* run that starts a thread for the handler and goes on accepting
Accept_threaded(c) ==
    /\ pc = "accept"
    /\ backlog # <<>>
    /\ c = Head(backlog)
    /\ backlog' = Tail(backlog)
    /\ pc' = "accept"
    /\ hpc' = [hpc EXCEPT ![c] = "recv"]
    /\ UNCHANGED <<data, command_str, cmd, response, outbox, trace>>
    /\ UNCHANGED <<cl, inbox, sent, nsent>>
    /\ UNCHANGED test_vars

\* run: conn, addr = self._socket.accept(); self.handle_connection(conn).
\* The call is synchronous: the loop is back at accept only when the
\* handler has returned.
Accept(c) ==
    /\ pc = "accept"
    /\ backlog # <<>>
    /\ c = Head(backlog)
    /\ backlog' = Tail(backlog)
    /\ pc' = "handle"
    /\ hpc' = [hpc EXCEPT ![c] = "recv"]
    /\ UNCHANGED <<data, command_str, cmd, response, outbox, trace>>
    /\ UNCHANGED <<cl, inbox, sent, nsent>>
    /\ UNCHANGED test_vars

\* handle_connection: data = conn.recv(1024) returns bytes;
\* command_str = data.decode('utf-8'); parse_command(command_str)
RecvData(c, n) ==
    /\ hpc[c] = "recv"
    /\ cl[c] # "reset"
    /\ n \in 1..Len(inbox[c])
    /\ LET r == recv(inbox[c], n)
       IN  /\ decodable(r.data)
           /\ inbox' = [inbox EXCEPT ![c] = r.rest]
           /\ command_str' = [command_str EXCEPT ![c] = decode(r.data)]
           /\ cmd' = [cmd EXCEPT ![c] = parse_command(decode(r.data))]
    /\ hpc' = [hpc EXCEPT ![c] = "exec"]
    /\ UNCHANGED <<data, pc, response, outbox, trace>>
    /\ UNCHANGED <<cl, sent, backlog, nsent>>
    /\ UNCHANGED test_vars

\* handle_connection: recv returns b'' (the client has closed and all its
\* bytes were read): break, the with block closes conn, run loops to accept
RecvEOF(c) ==
    /\ hpc[c] = "recv"
    /\ cl[c] = "closed"
    /\ inbox[c] = <<>>
    /\ hpc' = [hpc EXCEPT ![c] = "done"]
    /\ pc' = "accept"
    /\ UNCHANGED <<data, command_str, cmd, response, outbox, trace>>
    /\ UNCHANGED client_vars
    /\ UNCHANGED test_vars

\* An exception raised inside handle_connection is caught nowhere: the with
\* block closes conn, the exception leaves run() and main(), the process ends
Raise(c) ==
    /\ hpc' = [hpc EXCEPT ![c] = "done"]
    /\ pc' = "dead"

\* handle_connection: data.decode('utf-8') raises UnicodeDecodeError
RecvUndecodable(c, n) ==
    /\ hpc[c] = "recv"
    /\ cl[c] # "reset"
    /\ n \in 1..Len(inbox[c])
    /\ ~decodable(recv(inbox[c], n).data)
    /\ inbox' = [inbox EXCEPT ![c] = recv(inbox[c], n).rest]
    /\ Raise(c)
    /\ UNCHANGED <<data, command_str, cmd, response, outbox, trace>>
    /\ UNCHANGED <<cl, sent, backlog, nsent>>
    /\ UNCHANGED test_vars

\* handle_connection: conn.recv raises ConnectionResetError
RecvError(c) ==
    /\ hpc[c] = "recv"
    /\ cl[c] = "reset"
    /\ Raise(c)
    /\ UNCHANGED <<data, command_str, cmd, response, outbox, trace>>
    /\ UNCHANGED client_vars
    /\ UNCHANGED test_vars

\* handle_connection: response = self.execute_command(command, key, value)
Exec(c) ==
    /\ hpc[c] = "exec"
    /\ LET r == execute_command(data, cmd[c][1], cmd[c][2], cmd[c][3])
       IN  /\ data' = r.data
           /\ response' = [response EXCEPT ![c] = r.result]
           /\ trace' = Append(trace, Call(c, command_str[c], cmd[c][1],
                                          cmd[c][2], cmd[c][3], r.result))
    /\ hpc' = [hpc EXCEPT ![c] = "send"]
    /\ UNCHANGED <<pc, command_str, cmd, outbox>>
    /\ UNCHANGED client_vars
    /\ UNCHANGED test_vars

\* handle_connection: conn.sendall(format_response(response).encode('utf-8'))
\* returns; the loop goes back to recv
Send(c) ==
    /\ hpc[c] = "send"
    /\ outbox' = [outbox EXCEPT
                    ![c] = sendall(@, encode(format_response(response[c])))]
    /\ hpc' = [hpc EXCEPT ![c] = "recv"]
    /\ UNCHANGED <<data, pc, command_str, cmd, response, trace>>
    /\ UNCHANGED client_vars
    /\ UNCHANGED test_vars

\* handle_connection: conn.sendall raises BrokenPipeError or
\* ConnectionResetError (the peer is gone)
SendError(c) ==
    /\ hpc[c] = "send"
    /\ cl[c] \in {"closed", "reset"}
    /\ Raise(c)
    /\ UNCHANGED <<data, command_str, cmd, response, outbox, trace>>
    /\ UNCHANGED client_vars
    /\ UNCHANGED test_vars

----------------------------------------------------------------------------

ClientStep ==
    \E c \in Conns :
        \/ ClientConnect(c)
        \/ \E m \in menu[c] : ClientSend(c, m)
        \/ ClientClose(c)
        \/ ClientReset(c)

ServerStep ==
    \/ Run
    \/ \E c \in Conns :
        \/ Accept(c)
        \/ \E n \in 1..Len(inbox[c]) : RecvData(c, n)
        \/ \E n \in 1..Len(inbox[c]) : RecvUndecodable(c, n)
        \/ RecvEOF(c)
        \/ RecvError(c)
        \/ Exec(c)
        \/ Send(c)
        \/ SendError(c)

Next == ClientStep \/ ServerStep

Spec == Init /\ [][Next]_vars

SpecErr == InitErr /\ [][Next]_vars

SpecMulti == InitMulti /\ [][Next]_vars

SpecNoKey == InitNoKey /\ [][Next]_vars

SpecNoValue == InitNoValue /\ [][Next]_vars

SpecKeys == InitKeys /\ [][Next]_vars

\* The server thread takes its next step whenever it can (a running Python
\* thread is not suspended forever); clients are free to stay idle.
FairSpec == InitFew /\ [][Next]_vars /\ WF_vars(ServerStep)

----------------------------------------------------------------------------
(* test_kvs.py, test_protocol: parse_command called directly on a string   *)

SeqsUpTo(S, n) == UNION {[1..k -> S] : k \in 0..n}

Toks == {<<"g","e","t">>, <<"G","e","t">>, <<"G","E","T">>, <<"k","B">>}

Seps == {<<" ">>, <<"\t"," ">>}

Leads == {<<>>, <<"\n"," ">>}

Trails == {<<>>, <<"\r","\n">>}

RECURSIVE Glue(_, _)
Glue(toks, seps) ==
    IF toks = <<>> THEN <<>>
    ELSE IF Len(toks) = 1 THEN toks[1]
    ELSE toks[1] \o seps[1] \o Glue(Tail(toks), Tail(seps))

ParseInputs ==
    {lead \o Glue(toks, seps) \o trail :
        lead \in Leads, trail \in Trails,
        toks \in SeqsUpTo(Toks, MaxTokens),
        seps \in [1..(MaxTokens - 1) -> Seps]}

InitParse ==
    /\ data = EmptyDict
    /\ pc = "test_protocol"
    /\ NoLocals
    /\ NoNetwork
    /\ trace = <<>>
    /\ menu = [c \in Conns |-> {}]
    /\ limit = 0
    /\ arg \in ParseInputs
    /\ ret = <<>>

CallParse ==
    /\ pc = "test_protocol"
    /\ ret' = parse_command(arg)
    /\ pc' = "returned"
    /\ UNCHANGED <<data, hpc, command_str, cmd, response, outbox, trace>>
    /\ UNCHANGED client_vars
    /\ UNCHANGED <<menu, limit, arg>>

NextParse == CallParse

SpecParse == InitParse /\ [][NextParse]_vars

----------------------------------------------------------------------------
(* test_kvs.py, test_server_commands: execute_command called directly on   *)
(* a Server, whose Storage holds any entries (main.py fills it by          *)
(* storage.set before run)                                                 *)

TestKeys == {<<"a">>, <<"b">>, None}

TestValues == {<<"1">>, <<"x"," ","y">>, None}

Dicts == UNION {[K -> TestValues] : K \in SUBSET TestKeys}

TestCalls ==
    {<<GET, k, None>> : k \in TestKeys}
    \cup {<<DELETE, k, None>> : k \in TestKeys}
    \cup {<<SET, k, v>> : k \in TestKeys, v \in TestValues}
    \cup {<<<<"F","O","O">>, <<"a">>, None>>, <<None, None, None>>}

InitExec ==
    /\ data \in Dicts
    /\ pc = "test_server_commands"
    /\ NoLocals
    /\ NoNetwork
    /\ trace = <<>>
    /\ menu = [c \in Conns |-> {}]
    /\ limit = 0
    /\ arg = <<>>
    /\ ret = <<>>

CallExec(a) ==
    /\ pc = "test_server_commands"
    /\ Len(trace) < MaxCalls
    /\ LET r == execute_command(data, a[1], a[2], a[3])
       IN  /\ data' = r.data
           /\ trace' = Append(trace, Call(0, <<>>, a[1], a[2], a[3], r.result))
    /\ UNCHANGED <<pc, hpc, command_str, cmd, response, outbox>>
    /\ UNCHANGED client_vars
    /\ UNCHANGED test_vars

NextExec == \E a \in TestCalls : CallExec(a)

SpecExec == InitExec /\ [][NextExec]_vars

----------------------------------------------------------------------------

TypeOK ==
    /\ pc \in {"created", "accept", "handle", "dead",
               "test_protocol", "returned", "test_server_commands"}
    /\ \A c \in Conns : hpc[c] \in {"none", "recv", "exec", "send", "done"}

----------------------------------------------------------------------------
(* The history *)

\* the execute_command calls made for connection c, in order
ConnTrace(c) == SelectSeq(trace, LAMBDA e : e.conn = c)

IsPrefix(p, s) == Len(p) <= Len(s) /\ SubSeq(s, 1, Len(p)) = p

Line(str) == str \o <<"\n">>

\* the calls that write the entry of key k
Writes(k) ==
    {i \in 1..Len(trace) : trace[i].key = k /\ trace[i].command \in {SET, DELETE}}

LastWrite(k) == CHOOSE i \in Writes(k) : \A j \in Writes(k) : j <= i

TraceKeys == {trace[i].key : i \in 1..Len(trace)}

(* C1: from an empty Store, after any sequence of commands on any          *)
(* connections, a key is present exactly when a SET for it was executed   *)
(* and no DELETE for it after the last SET; a present key holds the value *)
(* of the most recent SET.                                                 *)
C1_PresentIffSetNotDeleted ==
    \A k \in DOMAIN data \cup TraceKeys :
        /\ k \in DOMAIN data <=>
              (Writes(k) # {} /\ trace[LastWrite(k)].command = SET)
        /\ k \in DOMAIN data => data[k] = trace[LastWrite(k)].value

\* SET, DELETE, SET on one key from two connections: the last value is kept
C1_Witness ==
    /\ Len(trace) = 3
    /\ trace[1].command = SET /\ trace[1].value = <<"1">>
    /\ trace[2].command = DELETE /\ trace[2].result = ONE
    /\ trace[3].command = SET /\ trace[3].value = <<"2">>
    /\ trace[1].conn # trace[3].conn
    /\ data = [k \in {<<"a">>} |-> <<"2">>]

(* C2: execute_command returns, for GET k, the value stored under k or     *)
(* None if k is not present; for SET k v, "OK", and GET k then returns v;  *)
(* for DELETE k, "1" exactly when k was present before the call and "0"    *)
(* otherwise, and then GET k returns None and a second DELETE k "0".       *)
C2_ExecuteCommandResults ==
    [][Len(trace') = Len(trace) + 1 =>
        LET e == trace'[Len(trace')]
            k == e.key
        IN  /\ e.command = GET =>
                e.result = (IF k \in DOMAIN data THEN data[k] ELSE None)
            /\ e.command = SET =>
                /\ e.result = OK
                /\ k \in DOMAIN data' /\ data'[k] = e.value
                /\ execute_command(data', GET, k, None).result = e.value
            /\ e.command = DELETE =>
                /\ e.result = (IF k \in DOMAIN data THEN ONE ELSE ZERO)
                /\ k \notin DOMAIN data'
                /\ execute_command(data', GET, k, None).result = None
                /\ execute_command(data', DELETE, k, None).result = ZERO
    ]_vars

\* a DELETE that removed a held entry, followed by a DELETE of the same key
C2_Witness ==
    /\ Len(trace) = 2
    /\ trace[1].command = DELETE /\ trace[1].result = ONE
    /\ trace[2].command = DELETE /\ trace[2].result = ZERO
    /\ trace[1].key = trace[2].key
    /\ data # EmptyDict

(* C3: a read whose verb is empty or none of GET, SET, DELETE is answered  *)
(* with "ERROR: Unknown command", leaves the Store unchanged and leaves    *)
(* the connection open: the handler goes on to write the answer and is     *)
(* then at recv on the same connection again.                              *)
C3_UnknownCommand ==
    [][\A c \in Conns :
        /\ (hpc[c] = "exec" /\ hpc'[c] # "exec"
                /\ cmd[c][1] \notin {GET, SET, DELETE}) =>
              /\ response'[c] = ERROR_UNKNOWN
              /\ data' = data
              /\ hpc'[c] = "send" /\ pc' = "handle"
        /\ (hpc[c] = "send" /\ hpc'[c] # "send" /\ cl[c] = "open"
                /\ cmd[c][1] \notin {GET, SET, DELETE}) =>
              /\ outbox'[c] = Append(outbox[c], Line(ERROR_UNKNOWN))
              /\ hpc'[c] = "recv" /\ pc' = "handle"
    ]_vars

\* an empty line and FOO are answered, then SET on the same connection is
C3_Witness ==
    \E c \in Conns :
        /\ outbox[c] = <<Line(ERROR_UNKNOWN), Line(ERROR_UNKNOWN), Line(OK)>>
        /\ Len(trace) = 3
        /\ trace[1].command = None
        /\ trace[2].command = <<"F","O","O">>
        /\ <<"a">> \in DOMAIN data

(* C4: a transport error or client disconnect on a connection (zero-length *)
(* read, socket error while reading or writing, undecodable input) ends    *)
(* that connection only: the Store is unchanged and the server is back at  *)
(* accept, ready for the other connections.                                *)
C4_TransportErrorClosesOnlyThatConnection ==
    [][\A c \in Conns :
        (hpc[c] \in Active /\ hpc'[c] = "done") =>
            /\ data' = data
            /\ pc' = "accept"
            /\ \A d \in Conns \ {c} : hpc'[d] = hpc[d]
    ]_vars

(* C5: while one client's connection stays open and idle, a second client  *)
(* that has connected and sent a command eventually gets its response.     *)
C5_SecondClientServed ==
    \A c \in Conns : \A d \in Conns \ {c} :
        [](( /\ hpc[c] = "recv" /\ cl[c] = "open" /\ inbox[c] = <<>>
             /\ cl[d] = "open" /\ inbox[d] # <<>>
             /\ decodable(concat[inbox[d]]) )
            => <>( \/ outbox[d] # <<>>
                   \/ ~(cl[c] = "open" /\ inbox[c] = <<>>)
                   \/ cl[d] # "open" ))

(* C6: on every connection the commands are executed in the order they    *)
(* were received, the response to a command is written before the next    *)
(* command is read, and the i-th response is the result of the i-th        *)
(* command.                                                                *)
C6_PerConnectionOrder ==
    \A c \in Conns :
        LET t == ConnTrace(c)
            reads == [i \in 1..Len(t) |-> t[i].str]
                        \o (IF hpc[c] = "exec" THEN <<command_str[c]>> ELSE <<>>)
        IN  /\ IsPrefix(concat[reads], sent[c])
            /\ hpc[c] \in {"recv", "exec"} => Len(outbox[c]) = Len(t)
            /\ hpc[c] = "send" => Len(outbox[c]) = Len(t) - 1
            /\ Len(outbox[c]) \in {Len(t) - 1, Len(t)}
            /\ \A i \in 1..Len(outbox[c]) :
                  outbox[c][i] = format_response(t[i].result)

\* two different commands were pending on a connection; both are answered
\* in their order and the third is read
C6_Witness ==
    \E c \in Conns :
        /\ hpc[c] = "exec"
        /\ Len(ConnTrace(c)) = 2
        /\ ConnTrace(c)[1].str = M_DELETE_A /\ ConnTrace(c)[2].str = M_SET_A_1
        /\ outbox[c] = <<Line(ZERO), Line(OK)>>
        /\ command_str[c] = M_GET_A

(* C7: a client that does SET k v and then GET k on its connection, while  *)
(* no command between the two is on the key k, is answered v, whatever     *)
(* the commands on other keys.                                             *)
C7_OwnKeyUnaffected ==
    \A i \in 1..Len(trace) : \A j \in (i + 1)..Len(trace) :
        ( /\ trace[i].conn = trace[j].conn
          /\ trace[i].command = SET /\ trace[j].command = GET
          /\ trace[i].key = trace[j].key
          /\ \A m \in (i + 1)..(j - 1) : trace[m].key # trace[i].key )
        => trace[j].result = trace[i].value

\* two clients have each SET and read back their own key
C7_Witness ==
    /\ Len(trace) = 4
    /\ \E c \in Conns : \E d \in Conns \ {c} :
        /\ outbox[c] = <<Line(OK), Line(<<"1">>)>>
        /\ outbox[d] = <<Line(OK), Line(<<"2">>)>>
        /\ ConnTrace(c)[2].key = <<"a">>
        /\ ConnTrace(d)[2].key = <<"b">>

(* C8: Store operations of different connections never overlap: while a   *)
(* handler is at its Store operation no other handler is running; and a    *)
(* stored value is exactly one of the values written for its key by SET.   *)
C8_StoreOperationsAtomic ==
    /\ \A c \in Conns : hpc[c] = "exec" =>
          \A d \in Conns \ {c} : hpc[d] \notin Active
    /\ \A k \in DOMAIN data :
          \E i \in 1..Len(trace) :
              /\ trace[i].command = SET
              /\ trace[i].key = k
              /\ trace[i].value = data[k]

\* two clients have SET the same key to different values
C8_Witness ==
    \E i \in 1..Len(trace) : \E j \in 1..Len(trace) :
        /\ i < j
        /\ trace[i].conn # trace[j].conn
        /\ trace[i].command = SET /\ trace[j].command = SET
        /\ trace[i].key = trace[j].key
        /\ trace[i].value # trace[j].value
        /\ data[trace[j].key] = trace[j].value

\* the values SET for key k by the first n calls
ValuesSet(k, n) ==
    {trace[i].value : i \in {m \in 1..n : trace[m].command = SET /\ trace[m].key = k}}

NthCall(c, i) ==
    CHOOSE n \in 1..Len(trace) :
        /\ trace[n].conn = c
        /\ Cardinality({m \in 1..n : trace[m].conn = c}) = i

(* C10: every response written to a client is a result followed by one     *)
(* newline: OK for SET, 0 or 1 for DELETE, for GET a value that was SET    *)
(* for the key or (nil) when the result is None, and ERROR: Unknown        *)
(* command for every other verb.                                           *)
C10_ResponseFormat ==
    \A c \in Conns : \A i \in 1..Len(outbox[c]) :
        LET e == ConnTrace(c)[i]
            out == outbox[c][i]
        IN  /\ e.command = SET => out = Line(OK)
            /\ e.command = DELETE => out \in {Line(ZERO), Line(ONE)}
            /\ e.command = GET =>
                  /\ e.result = None => out = Line(NIL)
                  /\ e.result # None =>
                        /\ e.result \in ValuesSet(e.key, NthCall(c, i))
                        /\ out = Line(e.result)
            /\ e.command \notin {SET, DELETE, GET} => out = Line(ERROR_UNKNOWN)

\* (nil), OK and a stored value written on one connection
C10_Witness ==
    \E c \in Conns :
        outbox[c] = <<Line(NIL), Line(OK), Line(<<"1">>)>>

----------------------------------------------------------------------------
(* Words of a string, stated without scanning: a word is a maximal run of  *)
(* characters that are no whitespace.                                      *)

WordStarts(s) ==
    {i \in 1..Len(s) : ~isspace(s[i]) /\ (i = 1 \/ isspace(s[i - 1]))}

WordEnds(s) ==
    {j \in 1..Len(s) : ~isspace(s[j]) /\ (j = Len(s) \/ isspace(s[j + 1]))}

NWords(s) == Cardinality(WordStarts(s))

\* the n-th word: from the n-th start to the n-th end
Word(s, n) ==
    LET starts == WordStarts(s)
        ends == WordEnds(s)
        i == CHOOSE q \in starts : Cardinality({r \in starts : r < q}) = n - 1
        j == CHOOSE q \in ends : Cardinality({r \in ends : r < q}) = n - 1
    IN  SubSeq(s, i, j)

IsUpperOf(u, w) ==
    /\ Len(u) = Len(w)
    /\ \A m \in 1..Len(w) :
        \/ \E i \in 1..26 : w[m] = LowerChars[i] /\ u[m] = UpperChars[i]
        \/ (\A i \in 1..26 : w[m] # LowerChars[i]) /\ u[m] = w[m]

\* v is the words of s from the third on, separated by single spaces
IsJoinedRest(v, s) ==
    /\ NWords(v) = NWords(s) - 2
    /\ \A n \in 1..NWords(v) : Word(v, n) = Word(s, n + 2)
    /\ \A m \in 1..Len(v) :
        isspace(v[m]) =>
            /\ v[m] = " "
            /\ 1 < m /\ m < Len(v)
            /\ ~isspace(v[m - 1]) /\ ~isspace(v[m + 1])

(* C9: parse_command returns (None, None, None) for a string that is empty *)
(* after stripping; otherwise the verb is the first word upper-cased, the  *)
(* key the second word unchanged (None if there is none) and the value    *)
(* the third and later words joined by single spaces (None if fewer than   *)
(* three words).                                                           *)
C9_ParseCommand ==
    pc = "returned" =>
        LET n == NWords(arg)
        IN  IF n = 0 THEN ret = <<None, None, None>>
            ELSE /\ IsUpperOf(ret[1], Word(arg, 1))
                 /\ ret[2] = (IF n >= 2 THEN Word(arg, 2) ELSE None)
                 /\ IF n >= 3 THEN IsJoinedRest(ret[3], arg) ELSE ret[3] = None

\* get with a mixed-case key and a two-word value after a run of whitespace
C9_Witness ==
    /\ pc = "returned"
    /\ NWords(arg) = 4
    /\ isspace(arg[1])
    /\ Word(arg, 1) = <<"G","e","t">>
    /\ ret = <<GET, <<"k","B">>, <<"k","B"," ","g","e","t">>>>
    /\ \E m \in 1..(Len(arg) - 1) : arg[m] = "\t" /\ arg[m + 1] = " "

----------------------------------------------------------------------------
\* the call before the last one of the history extended by this step
PrevCall == trace[Len(trace)]

(* C11: delete of an absent key leaves the Store unchanged and reports     *)
(* false, so a second delete(k) changes nothing; a second set(k, v)        *)
(* changes nothing; get(k) after sets on k yields the latest value.        *)
C11_StoreIdempotent ==
    [][Len(trace') = Len(trace) + 1 =>
        LET e == trace'[Len(trace')]
            k == e.key
        IN  /\ (e.command = DELETE /\ k \notin DOMAIN data) =>
                /\ data' = data
                /\ e.result = ZERO
                /\ ~Storage_delete(data, k).ret
            /\ (Len(trace) >= 1 /\ PrevCall.key = k) =>
                /\ (PrevCall.command = DELETE /\ e.command = DELETE) =>
                      data' = data
                /\ (PrevCall.command = SET /\ e.command = SET
                        /\ PrevCall.value = e.value) =>
                      data' = data
                /\ (PrevCall.command = SET /\ e.command = SET) =>
                      Storage_get(data', k) = e.value
    ]_vars

\* the same set twice on a key that held another value before
C11_Witness ==
    /\ Len(trace) = 2
    /\ trace[1].command = SET /\ trace[2].command = SET
    /\ trace[1].key = <<"b">> /\ trace[2].key = <<"b">>
    /\ trace[1].value = <<"x"," ","y">> /\ trace[2].value = <<"x"," ","y">>
    /\ data[<<"b">>] = <<"x"," ","y">>
    /\ None \in DOMAIN data

SameEntry(d1, d2, k) ==
    /\ k \in DOMAIN d1 <=> k \in DOMAIN d2
    /\ k \in DOMAIN d1 => d1[k] = d2[k]

(* C12: GET leaves the whole mapping unchanged, for a key present, absent  *)
(* or None; SET k and DELETE k change no entry other than the one of k.    *)
C12_FrameOfCommands ==
    [][Len(trace') = Len(trace) + 1 =>
        LET e == trace'[Len(trace')]
        IN  /\ e.command = GET => data' = data
            /\ e.command \in {SET, DELETE} =>
                  \A k \in (DOMAIN data \cup DOMAIN data') \ {e.key} :
                      SameEntry(data, data', k)
    ]_vars

\* GET without a key on a dict of three entries, then a DELETE that removes
\* one of them
C12_Witness ==
    /\ Len(trace) = 2
    /\ trace[1].command = GET /\ trace[1].key = None
    /\ trace[2].command = DELETE /\ trace[2].result = ONE
    /\ Cardinality(DOMAIN data) = 2

----------------------------------------------------------------------------
Handled == {c \in Conns : hpc[c] \in Active}

(* C13: at most one connection is being handled; the loop is at accept     *)
(* only when no handler runs, so a connection is accepted only after the   *)
(* handler of the one before has returned; the commands of a connection    *)
(* are all executed before any command of a connection accepted later.     *)
C13_OneConnectionAtATime ==
    /\ Cardinality(Handled) <= 1
    /\ pc = "accept" => Handled = {}
    /\ \A c \in Handled : \A d \in Conns \ {c} : hpc[d] \in {"none", "done"}
    /\ \A i \in 1..Len(trace) : \A j \in (i + 1)..Len(trace) :
          trace[i].conn # trace[j].conn =>
              /\ hpc[trace[i].conn] = "done"
              /\ \A k \in (j + 1)..Len(trace) : trace[k].conn # trace[i].conn

\* the second connection is served after the handler of the first returned
C13_Witness ==
    /\ hpc[1] = "done" /\ hpc[2] = "send"
    /\ Len(trace) = 3
    /\ trace[1].conn = 1 /\ trace[2].conn = 1 /\ trace[3].conn = 2
    /\ pc = "handle"

----------------------------------------------------------------------------
(* C14: every read that returns decodable bytes is one command: it leads  *)
(* to exactly one execute_command call, which changes at most the entry   *)
(* of its key (none for an unknown verb), and to exactly one sendall of   *)
(* a response, also when the read holds several lines; the verb and the   *)
(* key are the first two words of the read and all later words, those of  *)
(* the later lines included, make the value.                               *)
C14_OneCommandPerRead ==
    [][\A c \in Conns :
        /\ (hpc[c] = "recv" /\ hpc'[c] = "exec") =>
              LET str == command_str'[c]
                  n == NWords(str)
              IN  /\ trace' = trace /\ data' = data /\ outbox' = outbox
                  /\ n >= 1 => IsUpperOf(cmd'[c][1], Word(str, 1))
                  /\ n >= 2 => cmd'[c][2] = Word(str, 2)
                  /\ n >= 3 => IsJoinedRest(cmd'[c][3], str)
        /\ (hpc[c] = "exec" /\ hpc'[c] # "exec") =>
              /\ hpc'[c] = "send"
              /\ Len(trace') = Len(trace) + 1
              /\ trace'[Len(trace')].conn = c
              /\ trace'[Len(trace')].str = command_str[c]
              /\ outbox' = outbox
              /\ \A k \in (DOMAIN data \cup DOMAIN data') \ {cmd[c][2]} :
                    SameEntry(data, data', k)
              /\ cmd[c][1] \notin {GET, SET, DELETE} => data' = data
        /\ (hpc[c] = "send" /\ hpc'[c] = "recv") =>
              /\ Len(outbox'[c]) = Len(outbox[c]) + 1
              /\ trace' = trace /\ data' = data
        /\ hpc'[c] = hpc[c] =>
              /\ outbox'[c] = outbox[c]
              /\ Len(ConnTrace(c)') = Len(ConnTrace(c))
    ]_vars

\* the read "SET a 1\nGET a" was answered once and stored "1 GET a"; the
\* handler waits for the next read
C14_Witness ==
    \E c \in Conns :
        /\ hpc[c] = "recv" /\ inbox[c] = <<>>
        /\ sent[c] = M_SET_GET
        /\ outbox[c] = <<Line(OK)>>
        /\ Len(trace) = 1
        /\ data = [k \in {<<"a">>} |-> <<"1"," ","G","E","T"," ","a">>]

----------------------------------------------------------------------------
(* C15: GET, SET and DELETE without a key reach the Store with the key    *)
(* None: the answer is never "ERROR: Unknown command" and neither the      *)
(* handler nor the server ends; SET stores an entry under None and is      *)
(* answered OK, GET is then answered from that entry and DELETE is         *)
(* answered 1 and removes it.                                              *)
C15_MissingKeyIsNone ==
    [][\A c \in Conns :
        (hpc[c] = "exec" /\ hpc'[c] # "exec"
            /\ NWords(command_str[c]) = 1
            /\ cmd[c][1] \in {GET, SET, DELETE}) =>
          /\ cmd[c][2] = None
          /\ response'[c] # ERROR_UNKNOWN
          /\ hpc'[c] = "send" /\ pc' = "handle"
          /\ cmd[c][1] = SET =>
                /\ response'[c] = OK
                /\ None \in DOMAIN data'
                /\ data'[None] = cmd[c][3]
          /\ cmd[c][1] = GET =>
                /\ data' = data
                /\ response'[c] = (IF None \in DOMAIN data THEN data[None] ELSE None)
          /\ cmd[c][1] = DELETE =>
                /\ response'[c] = (IF None \in DOMAIN data THEN ONE ELSE ZERO)
                /\ None \notin DOMAIN data'
    ]_vars

\* set, GET and DELETE without a key on one connection, all answered
C15_Witness ==
    \E c \in Conns :
        /\ outbox[c] = <<Line(OK), Line(NIL), Line(ONE)>>
        /\ sent[c] = M_SET \o M_GET \o M_DELETE
        /\ Len(trace) = 3
        /\ \A i \in 1..3 : trace[i].key = None
        /\ data = EmptyDict
        /\ hpc[c] = "recv"

----------------------------------------------------------------------------
\* the handler of c has read, or is about to read, bytes the client sent
ByCommand(c) == hpc[c] \in {"exec", "send"} \/ inbox[c] # <<>>

\* the client of c has left, by close or by reset
ByDisconnect(c) == cl[c] \in {"closed", "reset"}

(* C16: once run() has started the server is at accept with no handler or  *)
(* handles exactly one connection; a zero-length read ends the handler    *)
(* and puts the server back at accept, where a pending connection is       *)
(* eventually accepted; the loop never ends through a client's command or *)
(* a client's disconnect.                                                  *)
C16_ListenerStateMachine ==
    /\ [](pc = "accept" => Handled = {})
    /\ [](pc = "handle" => Cardinality(Handled) = 1)
    /\ [][\A c \in Conns :
            (hpc[c] = "recv" /\ cl[c] = "closed" /\ inbox[c] = <<>>
                /\ hpc'[c] # hpc[c]) =>
                    hpc'[c] = "done" /\ pc' = "accept"]_vars
    /\ \A c \in Conns :
            (pc = "accept" /\ backlog # <<>> /\ Head(backlog) = c)
                ~> (hpc[c] # "none")
    /\ [][(pc \in {"accept", "handle"} /\ pc' \notin {"accept", "handle"}) =>
            \A c \in Handled : ~ByCommand(c) /\ ~ByDisconnect(c)]_vars

----------------------------------------------------------------------------
(* C17: a connection owns no durable state: only an execute_command call   *)
(* changes the Store, so connecting, accepting, closing and the end of a   *)
(* handler leave it as it was and a connection is accepted with the        *)
(* contents the connection before it left; the value a SET wrote on one    *)
(* connection is what GET answers on a later connection, until a later     *)
(* SET or DELETE of that key.                                              *)
C17_StoreOutlivesConnections ==
    [][/\ trace' = trace => data' = data
       /\ \A c \in Conns : hpc'[c] # hpc[c] /\ hpc'[c] # "send" => data' = data
       /\ \A c \in Conns : cl'[c] # cl[c] => data' = data
       /\ \A c \in Conns :
            (hpc[c] = "exec" /\ hpc'[c] = "send" /\ cmd[c][1] = GET) =>
                \A i \in 1..Len(trace) :
                    ( /\ trace[i].conn # c
                      /\ trace[i].command = SET
                      /\ trace[i].key = cmd[c][2]
                      /\ \A j \in (i + 1)..Len(trace) :
                            trace[j].key = cmd[c][2] =>
                                trace[j].command \notin {SET, DELETE} )
                    => response'[c] = trace[i].value
    ]_vars

\* SET a 1 on the first connection, which has ended; GET a on the second
\* is answered 1
C17_Witness ==
    /\ hpc[1] = "done" /\ cl[1] = "closed"
    /\ hpc[2] = "recv"
    /\ Len(trace) = 2
    /\ trace[1].conn = 1 /\ trace[1].command = SET
    /\ trace[2].conn = 2 /\ trace[2].command = GET
    /\ trace[2].result = <<"1">>
    /\ outbox[2] = <<Line(<<"1">>)>>

----------------------------------------------------------------------------
(* C18: SET with a key and no value stores the key with the value None    *)
(* and is answered OK; the key is then in the Store, so DELETE of it is   *)
(* answered 1, while GET of it is answered "(nil)", which is the answer    *)
(* for a key that was never set.                                           *)
C18_SetWithoutValue ==
    [][\A c \in Conns :
        /\ (hpc[c] = "exec" /\ hpc'[c] = "send" /\ cmd[c][1] = SET
                /\ NWords(command_str[c]) = 2) =>
              /\ cmd[c][3] = None
              /\ response'[c] = OK
              /\ cmd[c][2] \in DOMAIN data'
              /\ data'[cmd[c][2]] = None
        /\ (hpc[c] = "exec" /\ hpc'[c] = "send" /\ cmd[c][1] = DELETE
                /\ cmd[c][2] \in DOMAIN data /\ data[cmd[c][2]] = None) =>
              /\ response'[c] = ONE
              /\ cmd[c][2] \notin DOMAIN data'
        /\ (hpc[c] = "exec" /\ hpc'[c] = "send" /\ cmd[c][1] = GET
                /\ cmd[c][2] \in DOMAIN data /\ data[cmd[c][2]] = None) =>
              /\ format_response(response'[c]) = Line(NIL)
              /\ response'[c] = Storage_get(EmptyDict, cmd[c][2])
              /\ data' = data
        /\ (hpc[c] = "send" /\ hpc'[c] = "recv"
                /\ PrevCall.command = GET
                /\ PrevCall.key \in DOMAIN data /\ data[PrevCall.key] = None) =>
              outbox'[c][Len(outbox'[c])] = Line(NIL)
    ]_vars

\* SET a, GET a and DELETE a on one connection, all answered
C18_Witness ==
    \E c \in Conns :
        /\ sent[c] = M_SET_A \o M_GET_A \o M_DELETE_A
        /\ outbox[c] = <<Line(OK), Line(NIL), Line(ONE)>>
        /\ Len(trace) = 3
        /\ trace[1].command = SET /\ trace[1].value = None
        /\ trace[1].key = <<"a">>
        /\ data = EmptyDict
        /\ hpc[c] = "recv"

----------------------------------------------------------------------------
\* a key is None or has no whitespace in it
NormalKey(k) == k = None \/ \A i \in 1..Len(k) : ~isspace(k[i])

\* a value is None or has no newline, no whitespace at either end and no
\* two spaces in a row
NormalValue(v) ==
    \/ v = None
    \/ /\ \A i \in 1..Len(v) : v[i] # "\n"
       /\ v # <<>> => ~isspace(v[1]) /\ ~isspace(v[Len(v)])
       /\ \A i \in 1..(Len(v) - 1) : ~(v[i] = " " /\ v[i + 1] = " ")

\* the bytes end in a newline and hold no other
OneLine(bytes) ==
    /\ bytes # <<>>
    /\ \A i \in 1..Len(bytes) : bytes[i] = "\n" <=> i = Len(bytes)

(* C19: every key and every value a command of a connection writes to the *)
(* Store is None or normalised: no whitespace in a key; no newline, no     *)
(* whitespace at either end and no two spaces in a row in a value. So      *)
(* every response has exactly one newline, its last character, and GET     *)
(* reads a value back with the runs of whitespace between its words        *)
(* collapsed to one space each.                                            *)
C19_StoredTextNormalised ==
    /\ \A k \in DOMAIN data : NormalKey(k) /\ NormalValue(data[k])
    /\ \A i \in 1..Len(trace) :
          /\ trace[i].command = SET =>
                /\ NormalKey(trace[i].key) /\ NormalValue(trace[i].value)
                /\ NWords(trace[i].str) >= 3 =>
                      IsJoinedRest(trace[i].value, trace[i].str)
          /\ trace[i].command = GET =>
                /\ NormalValue(trace[i].result)
                /\ \A j \in 1..(i - 1) :
                      ( /\ trace[j].command = SET
                        /\ trace[j].key = trace[i].key
                        /\ \A m \in (j + 1)..(i - 1) :
                              trace[m].key = trace[i].key =>
                                  trace[m].command \notin {SET, DELETE} )
                      => trace[i].result = trace[j].value
    /\ \A c \in Conns : \A i \in 1..Len(outbox[c]) : OneLine(outbox[c][i])

\* "SET a<tab> x  y<newline>" and then GET a, answered "x y"
C19_Witness ==
    \E c \in Conns :
        /\ sent[c] = M_SET_RUNS \o M_GET_A
        /\ Len(trace) = 2
        /\ trace[1].str = M_SET_RUNS
        /\ trace[2].result = <<"x", " ", "y">>
        /\ outbox[c] = <<Line(OK), Line(<<"x", " ", "y">>)>>

====
